---- MODULE Spec2Model ----
(***************************************************************************)
(* The OVHcloud DNS provider of external-dns-management: the remote access *)
(* layer (pkg/controller/provider/ovhcloud/access.go) and the DNS handler  *)
(* built on it (GetZones, GetZoneState, ExecuteRequests).                  *)
(*                                                                         *)
(* Every invocation of the handler runs in an execution context (Procs).   *)
(* A context advances one rate-limiter acquisition or one remote call at a *)
(* time, so that concurrent invocations interleave at exactly the points   *)
(* where the code touches something shared: the rate limiter and the       *)
(* remote zone store.  Spec runs the invocations one after the other,      *)
(* SpecConcurrent lets them overlap.                                       *)
(*                                                                         *)
(* Host names and sub-domains are strings; fmt.Sprintf("%s.%s", a, b) is   *)
(* a \o "." \o b.                                                          *)
(***************************************************************************)
EXTENDS Naturals, Sequences, FiniteSets, TLC

VARIABLES
    zoneRecords,   \* remote store: zone id -> set of recordInfo
    nextId,        \* remote store: the id the next created record gets
    faults,        \* number of remote calls that have failed so far
    dryRun,        \* h.config.DryRun
    invocations,   \* number of handler invocations started so far
    submitted,     \* number of change requests handed to ExecuteRequests so far
    frame          \* execution context -> the locals of its invocation

vars == <<zoneRecords, nextId, faults, dryRun, invocations, submitted, frame>>

(***************************************************************************)
(* Bounds of the model.                                                    *)
(***************************************************************************)
MaxFaults == 1        \* remote calls that may fail in one behaviour
MaxInvocations == 2   \* handler invocations in one behaviour
MaxReqs == 2          \* change requests submitted in one behaviour

\* The execution contexts invocations run in.
Procs == {1, 2}

(***************************************************************************)
(* The remote zones and the records they hold when the engine starts.      *)
(***************************************************************************)
ZoneIds == <<"example.com", "example.org">>

Zones == {ZoneIds[n] : n \in 1..Len(ZoneIds)}

RecordInfo(id, zone, fieldType, subDomain, target, ttl) ==
    [Id |-> id, Zone |-> zone, FieldType |-> fieldType, SubDomain |-> subDomain,
     Target |-> target, Ttl |-> ttl]

InitialRecords ==
    [z \in Zones |->
        IF z = "example.com"
        THEN {RecordInfo(1, z, "NS", "", "ns1.ovh.net", 3600),
              RecordInfo(2, z, "NS", "sub", "ns1.sub.net", 3600),
              RecordInfo(3, z, "A", "www", "1.2.3.4", 300)}
        ELSE {RecordInfo(4, z, "MX", "", "mail.ovh.net", 3600),
              RecordInfo(5, z, "A", "www", "1.2.3.4", 300)}]

RECURSIVE MaxOf(_)
MaxOf(S) == IF S = {} THEN 0 ELSE LET x == CHOOSE y \in S : TRUE
                                      m == MaxOf(S \ {x})
                                  IN  IF x > m THEN x ELSE m

(***************************************************************************)
(* Change requests: provider.ChangeRequest reduced to the action and the   *)
(* record set dns.MapToProvider yields for it.                             *)
(***************************************************************************)
R_CREATE == "create"
R_UPDATE == "update"
R_DELETE == "delete"

Actions == {R_CREATE, R_UPDATE, R_DELETE}
Names == {"www", "api"}
ValueLists == {<<>>, <<"1.2.3.4">>, <<"1.2.3.4", "5.6.7.8">>}
\* The TTL of a record set is positive.
RequestTTLs == {600}

ChangeRequest ==
    [Action : Actions, Name : Names, Type : {"A"}, TTL : RequestTTLs,
     Records : ValueLists]

RECURSIVE SeqsUpTo(_, _)
SeqsUpTo(S, n) ==
    IF n = 0 THEN {<<>>}
    ELSE LET shorter == SeqsUpTo(S, n - 1)
         IN  shorter \cup {Append(s, x) : s \in {t \in shorter : Len(t) = n - 1}, x \in S}

(***************************************************************************)
(* Errors are the chain of messages fmt.Errorf wraps around the cause,     *)
(* outermost first; nil is the empty chain.                                *)
(***************************************************************************)
NoError == <<>>

Errorf(msg, cause) == <<msg>> \o cause

(***************************************************************************)
(* The trace of an invocation: rate-limiter acquisitions, remote calls and *)
(* the cache hook, in the order the invocation performed them.             *)
(***************************************************************************)
NoArg == RecordInfo(0, "", "", "", "", 0)

\* req is the index of the change request the event serves (0: none).
Event(kind, zone, arg, ok) ==
    [kind |-> kind, zone |-> zone, arg |-> arg, ok |-> ok, req |-> 0]

AcceptEvent == Event("accept", "", NoArg, TRUE)

RemoteCalls ==
    {"listZones", "getZoneInfo", "listRecordIds", "getRecord",
     "createRecord", "updateRecord", "deleteRecord", "refreshZone"}

WriteCalls == {"createRecord", "updateRecord", "deleteRecord"}

IdleFrame ==
    [op |-> "none", pc |-> "idle", accepted |-> FALSE,
     zone |-> "", reqs |-> <<>>, i |-> 0, j |-> 0, updated |-> FALSE,
     zs |-> <<>>, zones |-> <<>>, k |-> 0, hosted |-> <<>>,
     sub |-> "", type |-> "", ids |-> <<>>, records |-> <<>>, record |-> NoArg,
     state |-> {}, err |-> NoError, hookErr |-> NoError,
     pre |-> {}, trace |-> <<>>]

(***************************************************************************)
(* The remote REST API (spec section 6), as the client calls of access.go  *)
(* use it.  An empty fieldType or subDomain filter selects everything.     *)
(***************************************************************************)
RECURSIVE SortedIds(_)
SortedIds(S) ==
    IF S = {} THEN <<>>
    ELSE LET m == CHOOSE x \in S : \A y \in S : x <= y
         IN  <<m>> \o SortedIds(S \ {m})

\* GET /domain/zone/{zone}/record?fieldType=&subDomain=
RemoteRecordIds(store, zone, subDomain, fieldType) ==
    SortedIds({r.Id : r \in {x \in store[zone] :
                                /\ fieldType \in {"", x.FieldType}
                                /\ subDomain \in {"", x.SubDomain}}})

\* GET /domain/zone/{zone}/record/{id}
RemoteHasRecord(store, zone, id) == \E r \in store[zone] : r.Id = id

RemoteRecord(store, zone, id) == CHOOSE r \in store[zone] : r.Id = id

\* POST /domain/zone/{zone}/record
RemoteCreate(store, zone, id, body) ==
    [store EXCEPT ![zone] = @ \cup
        {RecordInfo(id, zone, body.FieldType, body.SubDomain, body.Target, body.Ttl)}]

\* PUT /domain/zone/{zone}/record/{id}: the fields the body carries are replaced.
\* recordInfo marshals with omitempty, so only the non-zero fields are sent.
RemoteUpdate(store, zone, id, body) ==
    [store EXCEPT ![zone] =
        {IF r.Id # id THEN r
         ELSE RecordInfo(r.Id, r.Zone,
                         IF body.FieldType = "" THEN r.FieldType ELSE body.FieldType,
                         IF body.SubDomain = "" THEN r.SubDomain ELSE body.SubDomain,
                         IF body.Target = "" THEN r.Target ELSE body.Target,
                         IF body.Ttl = 0 THEN r.Ttl ELSE body.Ttl) : r \in @}]

\* DELETE /domain/zone/{zone}/record/{id}
RemoteDelete(store, zone, id) ==
    [store EXCEPT ![zone] = {r \in @ : r.Id # id}]

(***************************************************************************)
(* Steps of an invocation.                                                 *)
(***************************************************************************)
\* The change request an invocation is working on (0: none).
Serving(f) ==
    IF /\ f.op = "ExecuteRequests"
       /\ f.pc \in {"dispatch", "listRecordIds", "getRecord",
                    "createRecord", "updateRecord", "deleteRecord"}
    THEN f.i ELSE 0

Log(f, e) == [f EXCEPT !.trace = Append(@, [e EXCEPT !.req = Serving(f)])]

\* Mutant: the record bodies are fetched without a token.
AcceptsExceptFetch(call) == call # "getRecord"

\* Whether the access function issuing `call` acquires a rate-limiter token
\* first (a.rateLimiter.Accept()).
Accepts(call) == TRUE

\* Move on to the remote call `call`.
Goto(f, call) == [f EXCEPT !.pc = call, !.accepted = ~Accepts(call)]

\* Mutant: a failed batch is returned without telling the cache.
ReturnUnlessFailed(f, err) ==
    IF f.op = "ExecuteRequests" /\ err = NoError
    THEN [f EXCEPT !.pc = "applyRequests", !.err = err]
    ELSE [f EXCEPT !.pc = "done", !.err = err]

\* Handler.ExecuteRequests hands the outcome of executeRequests to the cache
\* hook before it returns; the two read operations return directly.
Return(f, err) ==
    IF f.op = "ExecuteRequests"
    THEN [f EXCEPT !.pc = "applyRequests", !.err = err]
    ELSE [f EXCEPT !.pc = "done", !.err = err]

\* a.getRecordSets(zone, subDomain, fieldType)
CallGetRecordSets(f, zone, subDomain, fieldType) ==
    Goto([f EXCEPT !.zone = zone, !.sub = subDomain, !.type = fieldType,
                   !.ids = <<>>, !.records = <<>>], "listRecordIds")

(***************************************************************************)
(* Handler.executeRequests: the loop over the change requests.             *)
(***************************************************************************)
\* Top of `for _, r := range reqs` at request i: past the last request the
\* loop ends; a record set without records makes the function return (a
\* bare `return`: no error).
LoopRequest(f, i) ==
    IF i > Len(f.reqs)
    THEN [f EXCEPT !.i = i, !.pc = "finish"]
    ELSE IF Len(f.reqs[i].Records) = 0
         THEN Return([f EXCEPT !.i = i], NoError)
         ELSE [f EXCEPT !.i = i, !.j = 1, !.pc = "dispatch"]

\* Mutant: the two loops are interchanged: the records of the same rank of
\* all requests come before the records of the next rank.
NextRecordInterchanged(f) ==
    IF f.i < Len(f.reqs) /\ f.j <= Len(f.reqs[f.i + 1].Records)
    THEN [f EXCEPT !.i = @ + 1, !.pc = "dispatch"]
    ELSE IF f.j < Len(f.reqs[1].Records)
         THEN [f EXCEPT !.i = 1, !.j = @ + 1, !.pc = "dispatch"]
         ELSE LoopRequest(f, Len(f.reqs) + 1)

\* A record operation returned nil: next record of the set, or next request.
NextRecord(f) ==
    IF f.j < Len(f.reqs[f.i].Records)
    THEN [f EXCEPT !.j = @ + 1, !.pc = "dispatch"]
    ELSE LoopRequest(f, f.i + 1)

\* Mutant: the error is noted and the loop goes on with the next record.
RecordFailedContinues(f, cause) ==
    IF f.j < Len(f.reqs[f.i].Records)
    THEN [f EXCEPT !.j = @ + 1, !.pc = "dispatch", !.err = <<"failed">> \o cause]
    ELSE LoopRequest([f EXCEPT !.err = <<"failed">> \o cause], f.i + 1)

\* A record operation returned an error: executeRequests returns it, wrapped.
RecordFailed(f, cause) ==
    LET msg == CASE f.reqs[f.i].Action = R_CREATE -> "Create DNS zone record failed"
                 [] f.reqs[f.i].Action = R_UPDATE -> "Update DNS zone record failed"
                 [] f.reqs[f.i].Action = R_DELETE -> "Delete DNS zone record failed"
    IN  Return(f, Errorf(msg, cause))

\* Mutant: the zone is refreshed a second time before returning.
RefreshedTwice(f) ==
    IF Len(SelectSeq(f.trace, LAMBDA e : e.kind = "refreshZone")) < 2
    THEN Goto(f, "refreshZone")
    ELSE Return(f, NoError)

\* a.refreshZone returned nil: executeRequests returns nil.
Refreshed(f) == Return(f, NoError)

\* Mutant: the first record of the name and type is taken, whatever its target.
FirstMatchAny(records, value) ==
    IF records = <<>> THEN NoArg ELSE Head(records)

\* a.getRecordSet: the first fetched record whose target is the value; nil
\* (NoArg) when there is none.
FirstMatch(records, value) ==
    LET hits == {n \in 1..Len(records) : records[n].Target = value}
    IN  IF hits = {} THEN NoArg
        ELSE records[CHOOSE n \in hits : \A m \in hits : n <= m]

\* Mutant: an update without a matching record is skipped like a delete.
UpdateLookedSkips(f, record) ==
    IF record = NoArg
    THEN NextRecord(f)
    ELSE Goto([f EXCEPT !.record = record], "updateRecord")

\* updateRecordSet after its lookup: no record is an error, else PUT.
UpdateLooked(f, record) ==
    IF record = NoArg
    THEN RecordFailed(f, <<"Could not find record">>)
    ELSE Goto([f EXCEPT !.record = record], "updateRecord")

\* Mutant: a delete without a matching record is an error, like an update.
DeleteLookedFails(f, record) ==
    IF record = NoArg
    THEN RecordFailed(f, <<"Could not find record">>)
    ELSE Goto([f EXCEPT !.record = record], "deleteRecord")

\* deleteRecordSet after its lookup: no record returns nil, else DELETE.
DeleteLooked(f, record) ==
    IF record = NoArg
    THEN NextRecord(f)
    ELSE Goto([f EXCEPT !.record = record], "deleteRecord")

\* updateRecordSet and deleteRecordSet look the record up with a.getRecordSet
\* under the sub-domain and type of the set; the target compared is the
\* value of the record being updated or deleted.
Looked(f, records) ==
    LET record == FirstMatch(records, f.reqs[f.i].Records[f.j])
    IN  IF f.reqs[f.i].Action = R_UPDATE
        THEN UpdateLooked(f, record)
        ELSE DeleteLooked(f, record)

(***************************************************************************)
(* Handler.getZones: one hosted zone per zoneInfo, with the names its NS    *)
(* records forward.                                                        *)
(***************************************************************************)
HostNames ==
    Zones \cup {s \o "." \o z : s \in {"", "sub", "www", "api"}, z \in Zones}

\* dns.NormalizeHostname: a trailing dot is dropped.
NormalizeHostname(host) ==
    IF \E b \in HostNames : host = b \o "."
    THEN CHOOSE b \in HostNames : host = b \o "."
    ELSE host

\* name := fmt.Sprintf("%s.%s", r.Subdomain, r.Zone)
RecordName(r) == r.SubDomain \o "." \o r.Zone

RECURSIVE Forwarded(_, _)
Forwarded(records, zoneName) ==
    IF records = <<>> THEN <<>>
    ELSE LET name == RecordName(Head(records))
         IN  (IF name # zoneName THEN <<NormalizeHostname(name)>> ELSE <<>>)
             \o Forwarded(Tail(records), zoneName)

\* provider.NewDNSHostedZone(ptype, id, domain, key, forwarded, isPrivate)
NewDNSHostedZone(id, domain, key, forwarded, private) ==
    [Id |-> id, Domain |-> domain, Key |-> key, Forwarded |-> forwarded,
     Private |-> private]

\* Top of `for _, z := range zones` at zone k.
ResolveZone(f, k) ==
    IF k > Len(f.zones)
    THEN Return([f EXCEPT !.k = k], NoError)
    ELSE CallGetRecordSets([f EXCEPT !.k = k], f.zones[k].Name, "", "NS")

ZoneResolved(f, records) ==
    LET z == f.zones[f.k]
        hostedZone == NewDNSHostedZone(z.Name, NormalizeHostname(z.Name), z.Name,
                                       Forwarded(records, z.Name), FALSE)
    IN  ResolveZone([f EXCEPT !.hosted = Append(@, hostedZone)], f.k + 1)

\* Mutant: the zones resolved so far are returned with the error.
ZoneFailedPartial(f, cause) ==
    Return(f, Errorf("listing DNS zone records failed for zone " \o f.zones[f.k].Name, cause))

ZoneFailed(f, cause) ==
    Return([f EXCEPT !.hosted = <<>>],
           Errorf("listing DNS zone records failed for zone " \o f.zones[f.k].Name, cause))

(***************************************************************************)
(* Handler.getZoneState: the record sets of the supported types.           *)
(***************************************************************************)
SupportedTypes == {"A", "CNAME", "TXT"}

\* The record sets ForEachRecordSet hands to recordSetHandler: the fetched
\* records that share sub-domain and type make one record set, its records
\* their targets in the order fetched, its TTL that of the first of them.
RecordSetsOf(records) ==
    LET keys == {<<records[n].SubDomain, records[n].FieldType>> : n \in 1..Len(records)}
        group(key) == SelectSeq(records, LAMBDA r : /\ r.SubDomain = key[1]
                                                     /\ r.FieldType = key[2])
    IN  {[Name |-> key[1], Type |-> key[2], TTL |-> Head(group(key)).Ttl,
          Records |-> [n \in 1..Len(group(key)) |-> group(key)[n].Target]]
         : key \in keys}

\* Mutant: the record sets are added whatever their type.
DNSSetsOfAnyType(records) ==
    {[Name |-> s.Name, Type |-> s.Type, TTL |-> s.TTL, Records |-> s.Records]
     : s \in RecordSetsOf(records)}

\* recordSetHandler: A, CNAME and TXT sets are added, one dns.Record per
\* record of the set, CNAME values normalized.
DNSSetsOf(records) ==
    {[Name |-> s.Name, Type |-> s.Type, TTL |-> s.TTL,
      Records |-> IF s.Type = "CNAME"
                  THEN [n \in 1..Len(s.Records) |-> NormalizeHostname(s.Records[n])]
                  ELSE s.Records]
     : s \in {x \in RecordSetsOf(records) : x.Type \in SupportedTypes}}

StateRead(f, records) ==
    Return([f EXCEPT !.state = DNSSetsOf(records)], NoError)

\* Mutant: the sets of the records fetched before the failure are returned.
StateFailedPartial(f, cause) ==
    Return([f EXCEPT !.state = DNSSetsOf(f.records)],
           Errorf("Listing DNS zones failed for " \o f.zone, cause))

\* ForEachRecordSet returned an error: nil and the wrapped error are returned.
StateFailed(f, cause) ==
    Return([f EXCEPT !.state = {}],
           Errorf("Listing DNS zones failed for " \o f.zone, cause))

(***************************************************************************)
(* a.getRecordSets returns to the operation that called it.                *)
(***************************************************************************)
GotRecordSets(f, records) ==
    CASE f.op = "GetZones" -> ZoneResolved(f, records)
      [] f.op = "GetZoneState" -> StateRead(f, records)
      [] f.op = "ExecuteRequests" -> Looked(f, records)

FailedRecordSets(f, cause) ==
    CASE f.op = "GetZones" -> ZoneFailed(f, cause)
      [] f.op = "GetZoneState" -> StateFailed(f, cause)
      [] f.op = "ExecuteRequests" -> RecordFailed(f, cause)

\* Mutant: only the first of the listed records is fetched.
ListedFirstOnly(f, rs) ==
    IF rs = <<>>
    THEN GotRecordSets(f, <<>>)
    ELSE Goto([f EXCEPT !.ids = <<Head(rs)>>], "getRecord")

\* getRecordSets after the id listing: `for _, r := range rs` fetches every
\* listed record; without ids it returns the empty list.
Listed(f, rs) ==
    IF rs = <<>>
    THEN GotRecordSets(f, <<>>)
    ELSE Goto([f EXCEPT !.ids = rs], "getRecord")

(***************************************************************************)
(* Entry points of the handler.                                            *)
(***************************************************************************)
NewFrame(op, zone, reqs) ==
    [IdleFrame EXCEPT !.op = op, !.zone = zone, !.reqs = reqs,
                      !.pre = IF zone \in Zones THEN zoneRecords[zone] ELSE {}]

\* Mutant: the dry-run flag is not looked at.
executeRequestsAlways(f, dry) == LoopRequest(f, 1)

\* Handler.executeRequests up to its first record: in dry-run mode it
\* returns nil at once, otherwise it enters the loop with updated = false.
executeRequests(f, dry) ==
    IF dry THEN Return(f, NoError) ELSE LoopRequest(f, 1)

InFlight(p) == frame[p].pc \notin {"idle", "done"}

\* A new invocation runs in the first free execution context.
CanStart(p) ==
    /\ ~InFlight(p)
    /\ \A q \in Procs : q < p => InFlight(q)
    /\ invocations < MaxInvocations

StartGetZones(p) ==
    /\ CanStart(p)
    /\ frame' = [frame EXCEPT ![p] = Goto(NewFrame("GetZones", "", <<>>), "listZones")]
    /\ invocations' = invocations + 1
    /\ UNCHANGED <<zoneRecords, nextId, faults, dryRun, submitted>>

StartGetZoneState(p) ==
    /\ CanStart(p)
    /\ \E z \in Zones :
          frame' = [frame EXCEPT ![p] =
                       [NewFrame("GetZoneState", z, <<>>) EXCEPT !.pc = "readState"]]
    /\ invocations' = invocations + 1
    /\ UNCHANGED <<zoneRecords, nextId, faults, dryRun, submitted>>

StartExecuteRequests(p) ==
    /\ CanStart(p)
    /\ \E z \in Zones, reqs \in SeqsUpTo(ChangeRequest, MaxReqs - submitted) :
          /\ frame' = [frame EXCEPT ![p] =
                          executeRequests(NewFrame("ExecuteRequests", z, reqs), dryRun)]
          /\ submitted' = submitted + Len(reqs)
    /\ invocations' = invocations + 1
    /\ UNCHANGED <<zoneRecords, nextId, faults, dryRun>>

(***************************************************************************)
(* The rate limiter and the remote calls of access.go.                     *)
(***************************************************************************)
\* A remote call fails when the remote side cannot serve it, and may fail
\* for any other reason (network, HTTP status) while faults remain.
Outcomes(canSucceed) ==
    {ok \in BOOLEAN : /\ ok => canSucceed
                      /\ (~ok /\ canSucceed) => faults < MaxFaults}

Calling(p, call) == frame[p].pc = call /\ frame[p].accepted

\* a.rateLimiter.Accept() in front of a client call.
Accept(p) ==
    /\ frame[p].pc \in RemoteCalls
    /\ ~frame[p].accepted
    /\ frame' = [frame EXCEPT ![p] = [Log(@, AcceptEvent) EXCEPT !.accepted = TRUE]]
    /\ UNCHANGED <<zoneRecords, nextId, faults, dryRun, invocations, submitted>>

\* getZones: GET /domain/zone
ListZones(p) ==
    /\ Calling(p, "listZones")
    /\ \E ok \in Outcomes(TRUE) :
          LET f == Log(frame[p], Event("listZones", "", NoArg, ok))
          IN  /\ frame' = [frame EXCEPT ![p] =
                    IF ~ok
                    THEN Return(f, Errorf("listing DNS zones failed",
                                          <<"Error calling GET /domain/zone">>))
                    ELSE IF Len(ZoneIds) = 0
                         THEN ResolveZone([f EXCEPT !.zs = ZoneIds], 1)
                         ELSE Goto([f EXCEPT !.zs = ZoneIds, !.k = 1], "getZoneInfo")]
              /\ faults' = IF ok THEN faults ELSE faults + 1
    /\ UNCHANGED <<zoneRecords, nextId, dryRun, invocations, submitted>>

\* getZones: GET /domain/zone/{z}
GetZoneInfo(p) ==
    /\ Calling(p, "getZoneInfo")
    /\ \E ok \in Outcomes(TRUE) :
          LET z == frame[p].zs[frame[p].k]
              f == Log(frame[p], Event("getZoneInfo", z, NoArg, ok))
              g == [f EXCEPT !.zones = Append(@, [Name |-> z])]
          IN  /\ frame' = [frame EXCEPT ![p] =
                    IF ~ok
                    THEN Return(f, Errorf("listing DNS zones failed",
                                          <<"Error calling GET /domain/zone/" \o z>>))
                    ELSE IF g.k < Len(g.zs)
                         THEN Goto([g EXCEPT !.k = @ + 1], "getZoneInfo")
                         ELSE ResolveZone(g, 1)]
              /\ faults' = IF ok THEN faults ELSE faults + 1
    /\ UNCHANGED <<zoneRecords, nextId, dryRun, invocations, submitted>>

\* getRecordSets: GET /domain/zone/{zone}/record?fieldType=&subDomain=
ListRecordIds(p) ==
    /\ Calling(p, "listRecordIds")
    /\ \E ok \in Outcomes(TRUE) :
          LET f == Log(frame[p],
                       Event("listRecordIds", frame[p].zone,
                             RecordInfo(0, "", frame[p].type, frame[p].sub, "", 0), ok))
              rs == RemoteRecordIds(zoneRecords, f.zone, f.sub, f.type)
          IN  /\ frame' = [frame EXCEPT ![p] =
                    IF ~ok
                    THEN FailedRecordSets(f, <<"Error calling GET record ids">>)
                    ELSE Listed(f, rs)]
              /\ faults' = IF ok THEN faults ELSE faults + 1
    /\ UNCHANGED <<zoneRecords, nextId, dryRun, invocations, submitted>>

\* getRecordSets: GET /domain/zone/{zone}/record/{id}
GetRecord(p) ==
    /\ Calling(p, "getRecord")
    /\ LET r == Head(frame[p].ids)
       IN  \E ok \in Outcomes(RemoteHasRecord(zoneRecords, frame[p].zone, r)) :
              LET f == Log(frame[p],
                           Event("getRecord", frame[p].zone,
                                 RecordInfo(r, "", "", "", "", 0), ok))
                  g == [f EXCEPT !.ids = Tail(@),
                                 !.records = Append(@, RemoteRecord(zoneRecords, f.zone, r))]
              IN  /\ frame' = [frame EXCEPT ![p] =
                        IF ~ok
                        THEN FailedRecordSets(f, <<"Error calling GET record">>)
                        ELSE IF g.ids = <<>>
                             THEN GotRecordSets(g, g.records)
                             ELSE Goto(g, "getRecord")]
                  /\ faults' = IF ok THEN faults ELSE faults + 1
    /\ UNCHANGED <<zoneRecords, nextId, dryRun, invocations, submitted>>

\* h.client.ForEachRecordSet(zone.Id(), recordSetHandler): every record of
\* the zone is enumerated and fetched, one rate-limited call each (no
\* subDomain filter, no fieldType filter).
ForEachRecordSet(f) == CallGetRecordSets(f, f.zone, "", "")

\* getZoneState: h.config.RateLimiter.Accept(), then ForEachRecordSet.
ReadState(p) ==
    /\ frame[p].pc = "readState"
    /\ frame' = [frame EXCEPT ![p] = ForEachRecordSet(Log(@, AcceptEvent))]
    /\ UNCHANGED <<zoneRecords, nextId, faults, dryRun, invocations, submitted>>

\* Mutant: the lookup of update and delete lists the records of every name.
DispatchedAnyName(f) ==
    LET req == f.reqs[f.i]
        g == Log([f EXCEPT !.updated = TRUE], AcceptEvent)
    IN  IF req.Action = R_CREATE
        THEN Goto(g, "createRecord")
        ELSE CallGetRecordSets(g, g.zone, "", req.Type)

\* Mutant: the record operations are issued against the first zone, whatever
\* the zone of the invocation.
DispatchedInFirstZone(f) ==
    LET req == f.reqs[f.i]
        g == Log([f EXCEPT !.updated = TRUE, !.zone = ZoneIds[1]], AcceptEvent)
    IN  IF req.Action = R_CREATE
        THEN Goto(g, "createRecord")
        ELSE CallGetRecordSets(g, g.zone, req.Name, req.Type)

\* The body of `for i, r := range rset.Records` up to the record operation:
\* updated = true, h.config.RateLimiter.Accept(), then the switch on the action.
Dispatched(f) ==
    LET req == f.reqs[f.i]
        g == Log([f EXCEPT !.updated = TRUE], AcceptEvent)
    IN  IF req.Action = R_CREATE
        THEN Goto(g, "createRecord")
        ELSE CallGetRecordSets(g, g.zone, req.Name, req.Type)

Dispatch(p) ==
    /\ frame[p].pc = "dispatch"
    /\ frame' = [frame EXCEPT ![p] = Dispatched(@)]
    /\ UNCHANGED <<zoneRecords, nextId, faults, dryRun, invocations, submitted>>

\* Mutant: the TTL of the record set is left out of the body.
createRecordSetWithoutTtl(name, value, fieldType, ttl) ==
    RecordInfo(0, "", fieldType, name, value, 0)

\* createRecordSet: the body it posts,
\* recordInfo{FieldType: fieldType, SubDomain: name, Target: value, Ttl: ttl}.
createRecordSet(name, value, fieldType, ttl) ==
    RecordInfo(0, "", fieldType, name, value, ttl)

\* createRecordSet: POST /domain/zone/{zone}/record
CreateRecord(p) ==
    /\ Calling(p, "createRecord")
    /\ \E ok \in Outcomes(TRUE) :
          LET req == frame[p].reqs[frame[p].i]
              r == createRecordSet(req.Name, req.Records[frame[p].j], req.Type, req.TTL)
              f == Log(frame[p], Event("createRecord", frame[p].zone, r, ok))
          IN  /\ frame' = [frame EXCEPT ![p] =
                    IF ok THEN NextRecord(f)
                    ELSE RecordFailed(f, <<"Error calling POST record">>)]
              /\ zoneRecords' = IF ok THEN RemoteCreate(zoneRecords, f.zone, nextId, r)
                                ELSE zoneRecords
              /\ nextId' = IF ok THEN nextId + 1 ELSE nextId
              /\ faults' = IF ok THEN faults ELSE faults + 1
    /\ UNCHANGED <<dryRun, invocations, submitted>>

\* Mutant: the TTL is left out of the body.
updateRecordSetWithoutTtl(record, ttl) ==
    RecordInfo(record.Id, "", "", "", "", 0)

\* updateRecordSet: the record.Id of its endpoint and the body it puts,
\* recordInfo{Ttl: ttl}.
updateRecordSet(record, ttl) ==
    RecordInfo(record.Id, "", "", "", "", ttl)

\* updateRecordSet: PUT /domain/zone/{zone}/record/{id} with body {ttl}
UpdateRecord(p) ==
    /\ Calling(p, "updateRecord")
    /\ \E ok \in Outcomes(RemoteHasRecord(zoneRecords, frame[p].zone, frame[p].record.Id)) :
          LET req == frame[p].reqs[frame[p].i]
              ri == updateRecordSet(frame[p].record, req.TTL)
              f == Log(frame[p], Event("updateRecord", frame[p].zone, ri, ok))
          IN  /\ frame' = [frame EXCEPT ![p] =
                    IF ok THEN NextRecord(f)
                    ELSE RecordFailed(f, <<"Error calling PUT record">>)]
              /\ zoneRecords' = IF ok THEN RemoteUpdate(zoneRecords, f.zone, ri.Id, ri)
                                ELSE zoneRecords
              /\ faults' = IF ok THEN faults ELSE faults + 1
    /\ UNCHANGED <<nextId, dryRun, invocations, submitted>>

\* deleteRecordSet: DELETE /domain/zone/{zone}/record/{id}
DeleteRecord(p) ==
    /\ Calling(p, "deleteRecord")
    /\ \E ok \in Outcomes(RemoteHasRecord(zoneRecords, frame[p].zone, frame[p].record.Id)) :
          LET ri == RecordInfo(frame[p].record.Id, "", "", "", "", 0)
              f == Log(frame[p], Event("deleteRecord", frame[p].zone, ri, ok))
          IN  /\ frame' = [frame EXCEPT ![p] =
                    IF ok THEN NextRecord(f)
                    ELSE RecordFailed(f, <<"Error calling DELETE record">>)]
              /\ zoneRecords' = IF ok THEN RemoteDelete(zoneRecords, f.zone, ri.Id)
                                ELSE zoneRecords
              /\ faults' = IF ok THEN faults ELSE faults + 1
    /\ UNCHANGED <<nextId, dryRun, invocations, submitted>>

\* After the loop: `if updated { h.config.RateLimiter.Accept(); refreshZone }`,
\* else return nil.
Finished(f) ==
    IF f.updated
    THEN Goto(Log(f, AcceptEvent), "refreshZone")
    ELSE Return(f, NoError)

Finish(p) ==
    /\ frame[p].pc = "finish"
    /\ frame' = [frame EXCEPT ![p] = Finished(@)]
    /\ UNCHANGED <<zoneRecords, nextId, faults, dryRun, invocations, submitted>>

\* refreshZone: POST /domain/zone/{zone}/refresh
RefreshZone(p) ==
    /\ Calling(p, "refreshZone")
    /\ \E ok \in Outcomes(TRUE) :
          LET f == Log(frame[p], Event("refreshZone", frame[p].zone, NoArg, ok))
          IN  /\ frame' = [frame EXCEPT ![p] =
                    IF ok THEN Refreshed(f)
                    ELSE Return(f, Errorf("Refesh DNS zone failed",
                                          <<"Error calling POST refresh">>))]
              /\ faults' = IF ok THEN faults ELSE faults + 1
    /\ UNCHANGED <<zoneRecords, nextId, dryRun, invocations, submitted>>

\* Handler.ExecuteRequests: h.cache.ApplyRequests(logger, err, zone, reqs),
\* then return err.
Applied(f) ==
    [Log(f, Event("applyRequests", f.zone, NoArg, f.err = NoError))
        EXCEPT !.hookErr = f.err, !.pc = "done"]

ApplyRequests(p) ==
    /\ frame[p].pc = "applyRequests"
    /\ frame' = [frame EXCEPT ![p] = Applied(@)]
    /\ UNCHANGED <<zoneRecords, nextId, faults, dryRun, invocations, submitted>>

(***************************************************************************)
(* The specification.                                                      *)
(***************************************************************************)
Init ==
    /\ zoneRecords = InitialRecords
    /\ nextId = 1 + MaxOf({r.Id : r \in UNION {InitialRecords[z] : z \in Zones}})
    /\ faults = 0
    /\ dryRun \in BOOLEAN
    /\ invocations = 0
    /\ submitted = 0
    /\ frame = [p \in Procs |-> IdleFrame]

\* An invocation begins.
Begin(p) ==
    \/ StartGetZones(p)
    \/ StartGetZoneState(p)
    \/ StartExecuteRequests(p)

\* An invocation in flight takes its next step.
Step(p) ==
    \/ Accept(p)
    \/ ListZones(p)
    \/ GetZoneInfo(p)
    \/ ListRecordIds(p)
    \/ GetRecord(p)
    \/ ReadState(p)
    \/ Dispatch(p)
    \/ CreateRecord(p)
    \/ UpdateRecord(p)
    \/ DeleteRecord(p)
    \/ Finish(p)
    \/ RefreshZone(p)
    \/ ApplyRequests(p)

\* The handler as its caller drives it by default: the calls are blocking,
\* one invocation after the other.
Next ==
    \E p \in Procs :
        \/ (\A q \in Procs : ~InFlight(q)) /\ Begin(p)
        \/ Step(p)

Spec == Init /\ [][Next]_vars

\* The handler invoked from several execution contexts at once: invocations
\* begin at any time and their steps interleave.
NextConcurrent ==
    \E p \in Procs :
        \/ Begin(p)
        \/ Step(p)

SpecConcurrent == Init /\ [][NextConcurrent]_vars

(***************************************************************************)
(* Properties.                                                             *)
(***************************************************************************)
IsExec(f) == f.op = "ExecuteRequests"

Returned(f) == f.pc = "done"

\* The positions of the trace that hold an event of one of the kinds.
Positions(f, kinds) == {n \in 1..Len(f.trace) : f.trace[n].kind \in kinds}

SucceededAt(f, kinds) == {n \in Positions(f, kinds) : f.trace[n].ok}

FailedAt(f, kinds) == {n \in Positions(f, kinds) : ~f.trace[n].ok}

\* The change requests for which a remote call was issued.
DispatchedRequests(f) == {f.trace[n].req : n \in Positions(f, RemoteCalls)} \ {0}

RecordFailures ==
    {"Create DNS zone record failed", "Update DNS zone record failed",
     "Delete DNS zone record failed"}

\* executeRequests returned the error of a record operation.
RecordOperationFailed(f) ==
    /\ IsExec(f)
    /\ Returned(f)
    /\ f.err # NoError
    /\ Head(f.err) \in RecordFailures

C2_NoRefreshWithoutWrite ==
    \A p \in Procs :
        LET f == frame[p]
        IN  (IsExec(f) /\ SucceededAt(f, WriteCalls) = {}) =>
                Positions(f, {"refreshZone"}) = {}

\* C3: an executeRequests invocation issues at most one refreshZone call,
\* and issues it after every lookup and write call of the batch, when the
\* loop over the requests has ended.
C3_OneRefreshAfterTheWrites ==
    \A p \in Procs :
        LET f == frame[p]
            refreshes == Positions(f, {"refreshZone"})
        IN  IsExec(f) =>
              /\ Cardinality(refreshes) <= 1
              /\ \A n \in refreshes :
                    /\ Positions(f, RemoteCalls \ {"refreshZone"}) \subseteq 1..(n - 1)
                    /\ f.i = Len(f.reqs) + 1

C3_Witness ==
    \E p \in Procs :
        LET f == frame[p]
        IN  /\ IsExec(f)
            /\ Returned(f)
            /\ Cardinality(SucceededAt(f, WriteCalls)) = 2
            /\ DispatchedRequests(f) = {1, 2}
            /\ Cardinality(SucceededAt(f, {"refreshZone"})) = 1

\* No other execution context has run anything: the invocation of p had the
\* remote store to itself.
Alone(p) == \A q \in Procs \ {p} : frame[q].op = "none"

\* The records the zone held, when the invocation began, at the request's
\* name and type with target v.
Matching(f, req, v) ==
    {r \in f.pre : r.SubDomain = req.Name /\ r.FieldType = req.Type /\ r.Target = v}

AbsentValues(f, req) ==
    {n \in 1..Len(req.Records) : Matching(f, req, req.Records[n]) = {}}

\* executeRequests has returned from a batch of one request with the action.
SingleRequest(p, action) ==
    LET f == frame[p]
    IN  /\ IsExec(f)
        /\ Returned(f)
        /\ ~dryRun
        /\ Alone(p)
        /\ Len(f.reqs) = 1
        /\ f.reqs[1].Action = action
        /\ f.reqs[1].Records # <<>>

Lookups == {"listRecordIds", "getRecord"}

\* C4: a delete request for a record set that does not exist remotely is a
\* no-op: when the remote calls of the invocation are answered,
\* executeRequests returns nil, issues no DELETE call and leaves the zone as
\* it was; so the same delete request applied a second time changes nothing.
C4_DeleteOfAbsentIsNoOp ==
    \A p \in Procs :
        LET f == frame[p]
        IN  (/\ SingleRequest(p, R_DELETE)
             /\ AbsentValues(f, f.reqs[1]) = 1..Len(f.reqs[1].Records)
             /\ FailedAt(f, RemoteCalls) = {}) =>
                /\ f.err = NoError
                /\ Positions(f, {"deleteRecord"}) = {}
                /\ zoneRecords[f.zone] = f.pre

\* The second of two invocations deleting www, which the first one removed.
C4_Witness ==
    \E p \in Procs :
        LET f == frame[p]
        IN  /\ SingleRequest(p, R_DELETE)
            /\ invocations = 2
            /\ f.reqs[1].Name = "www"
            /\ AbsentValues(f, f.reqs[1]) = 1..Len(f.reqs[1].Records)
            /\ FailedAt(f, RemoteCalls) = {}
            /\ Positions(f, Lookups) # {}
            /\ f.err = NoError

NotFoundError == <<"Update DNS zone record failed", "Could not find record">>

C6_DryRunIssuesNothing ==
    dryRun =>
        /\ zoneRecords = InitialRecords
        /\ \A p \in Procs :
              LET f == frame[p]
              IN  IsExec(f) =>
                    /\ Positions(f, RemoteCalls \cup {"accept"}) = {}
                    /\ f.err = NoError
                    /\ f.pc \in {"applyRequests", "done"}

C6_Witness ==
    /\ dryRun
    /\ \E p \in Procs :
          LET f == frame[p]
          IN  /\ IsExec(f)
              /\ Returned(f)
              /\ Len(f.reqs) = 2
              /\ \A n \in 1..2 : f.reqs[n].Records # <<>>

\* C7: ExecuteRequests calls the cache hook ApplyRequests exactly once, as
\* the last thing it does (after every remote call, refreshZone included),
\* with the error it returns; before it returns the hook has not run.
C7_HookOnceWithTheReturnedError ==
    \A p \in Procs :
        LET f == frame[p]
            hooks == Positions(f, {"applyRequests"})
        IN  IsExec(f) =>
              IF Returned(f)
              THEN /\ hooks = {Len(f.trace)}
                   /\ f.hookErr = f.err
                   /\ f.trace[Len(f.trace)].ok = (f.err = NoError)
              ELSE hooks = {}

C7_Witness ==
    \E p \in Procs :
        LET f == frame[p]
        IN  /\ IsExec(f)
            /\ Returned(f)
            /\ FailedAt(f, {"refreshZone"}) # {}
            /\ f.hookErr # NoError

\* C8: in every interleaving, each remote call of an invocation comes right
\* after a rate-limiter acquisition of that invocation, so the invocations
\* together never have issued more remote calls than they were granted tokens.
RECURSIVE EventsOf(_, _)
EventsOf(S, kinds) ==
    IF S = {} THEN 0
    ELSE LET p == CHOOSE q \in S : TRUE
         IN  Cardinality(Positions(frame[p], kinds)) + EventsOf(S \ {p}, kinds)

C8_EveryCallHasItsToken ==
    /\ \A p \in Procs :
          \A n \in Positions(frame[p], RemoteCalls) :
              /\ n > 1
              /\ frame[p].trace[n - 1].kind = "accept"
    /\ EventsOf(Procs, RemoteCalls) <= EventsOf(Procs, {"accept"})

C8_Witness ==
    \E p, q \in Procs :
        /\ p # q
        /\ IsExec(frame[p])
        /\ frame[q].op \in {"GetZones", "GetZoneState"}
        /\ frame[p].pc = "refreshZone"
        /\ frame[q].pc = "getRecord"
        /\ Positions(frame[p], WriteCalls) # {}
        /\ Positions(frame[q], RemoteCalls) # {}

\* C9: listZones fails as a whole: when it returns an error it returns no
\* zone; when it succeeds it returns one zone per remote zone id, in the
\* order of the remote listing.
C9_ListZonesAllOrNothing ==
    \A p \in Procs :
        LET f == frame[p]
        IN  (f.op = "GetZones" /\ Returned(f)) =>
              IF f.err # NoError
              THEN f.hosted = <<>>
              ELSE /\ Len(f.hosted) = Len(ZoneIds)
                   /\ \A n \in 1..Len(ZoneIds) : f.hosted[n].Id = ZoneIds[n]

C9_Witness ==
    \E p \in Procs :
        LET f == frame[p]
        IN  /\ f.op = "GetZones"
            /\ Returned(f)
            /\ f.err # NoError
            /\ f.k = 2
            /\ FailedAt(f, Lookups) # {}
            /\ f.hosted = <<>>

\* The owner name of a remote record: the zone apex for an empty subDomain.
OwnerName(r) == IF r.SubDomain = "" THEN r.Zone ELSE r.SubDomain \o "." \o r.Zone

\* C10 as claimed: the forwarded names of a listed zone are the owner names
\* of its NS records that differ from the zone apex; NS records at the apex
\* add nothing.
C10_ForwardedAreTheDelegatedNames ==
    \A p \in Procs :
        LET f == frame[p]
        IN  (f.op = "GetZones" /\ Returned(f) /\ f.err = NoError) =>
              \A n \in 1..Len(f.hosted) :
                  LET hz == f.hosted[n]
                      ns == {r \in zoneRecords[hz.Id] : r.FieldType = "NS"}
                  IN  {hz.Forwarded[m] : m \in 1..Len(hz.Forwarded)}
                        = {OwnerName(r) : r \in {x \in ns : OwnerName(x) # hz.Id}}

IsRead(f) == f.op = "GetZoneState"

\* The records among `records` that getZoneState keeps.
Supported(records) == {r \in records : r.FieldType \in SupportedTypes}

\* C11 as claimed: a successful readZoneState of a zone issues 1 + N remote
\* read calls, N the number of the zone's records of a supported type.
C11_ReadsOnePlusSupportedRecords ==
    \A p \in Procs :
        LET f == frame[p]
        IN  (IsRead(f) /\ Returned(f) /\ f.err = NoError) =>
                Cardinality(Positions(f, RemoteCalls)) = 1 + Cardinality(Supported(f.pre))

\* C11 as amended: a successful readZoneState of a zone issues 1 + N remote
\* read calls, N the number of all the records of the zone whatever their
\* type: first the one id listing, without filter, then one body fetch for
\* each record of the zone; a read that fails has issued no more than that.
C11_ReadsOnePlusAllRecords ==
    \A p \in Procs :
        LET f == frame[p]
            listings == Positions(f, {"listRecordIds"})
            fetches == Positions(f, {"getRecord"})
        IN  IsRead(f) =>
              /\ Positions(f, RemoteCalls) = listings \cup fetches
              /\ Cardinality(listings) <= 1
              /\ \A n \in listings :
                    /\ fetches \subseteq (n + 1)..Len(f.trace)
                    /\ f.trace[n].zone = f.zone
                    /\ f.trace[n].arg.SubDomain = ""
                    /\ f.trace[n].arg.FieldType = ""
              /\ Cardinality(fetches) <= Cardinality(f.pre)
              /\ (Returned(f) /\ f.err = NoError) =>
                    /\ Cardinality(listings) = 1
                    /\ Cardinality(fetches) = Cardinality(f.pre)
                    /\ {f.trace[n].arg.Id : n \in fetches} = {r.Id : r \in f.pre}

\* The state of a zone that holds records of other types, read after a
\* batch has created records in it.
C11_Witness ==
    \E p \in Procs :
        LET f == frame[p]
        IN  /\ IsRead(f)
            /\ Returned(f)
            /\ f.err = NoError
            /\ Cardinality(f.pre) > Cardinality(InitialRecords[f.zone])
            /\ Supported(f.pre) # f.pre
            /\ Cardinality(Positions(f, {"getRecord"})) = Cardinality(f.pre)

\* The number of records of a DNSSet collection.
RECURSIVE CountRecords(_)
CountRecords(sets) ==
    IF sets = {} THEN 0
    ELSE LET s == CHOOSE x \in sets : TRUE
         IN  Len(s.Records) + CountRecords(sets \ {s})

\* The value a remote record has in the zone state.
StateValue(r) ==
    IF r.FieldType = "CNAME" THEN NormalizeHostname(r.Target) ELSE r.Target

\* The remote records a record of the set s stands for.
RecordsFor(records, s, value) ==
    {r \in records : /\ r.SubDomain = s.Name
                     /\ r.FieldType = s.Type
                     /\ StateValue(r) = value}

\* C12: the DNSSet collection a successful readZoneState returns holds
\* exactly the remote records of type A, CNAME or TXT: every set is of one
\* of the three types, every record of a set is a remote record of that name
\* and type, every remote record of the three types is in its set as often
\* as the zone holds it, and the records of the collection are as many as
\* the remote records of the three types.
C12_StateIsTheSupportedRecords ==
    \A p \in Procs :
        LET f == frame[p]
        IN  (IsRead(f) /\ Returned(f) /\ f.err = NoError) =>
              /\ \A s \in f.state :
                    /\ s.Type \in SupportedTypes
                    /\ \A n \in 1..Len(s.Records) :
                          Cardinality(RecordsFor(f.pre, s, s.Records[n]))
                            = Cardinality({m \in 1..Len(s.Records) : s.Records[m] = s.Records[n]})
              /\ \A r \in Supported(f.pre) :
                    \E s \in f.state :
                        /\ r \in RecordsFor(f.pre, s, StateValue(r))
                        /\ \E n \in 1..Len(s.Records) : s.Records[n] = StateValue(r)
              /\ \A s, t \in f.state : (s.Name = t.Name /\ s.Type = t.Type) => s = t
              /\ CountRecords(f.state) = Cardinality(Supported(f.pre))

\* The state of example.org, which holds an MX record, read after a batch
\* has added two A records to the one it had.
C12_Witness ==
    \E p \in Procs :
        LET f == frame[p]
        IN  /\ IsRead(f)
            /\ Returned(f)
            /\ f.err = NoError
            /\ \E r \in f.pre : r.FieldType = "MX"
            /\ Cardinality(Supported(f.pre)) = 3
            /\ CountRecords(f.state) = 3

\* C13: readZoneState fails as a whole: when the id listing or the fetch of
\* a record fails, no further call is issued and an error is returned with
\* no zone state at all; a result without error is built from an answered
\* listing and an answered fetch of every record of the zone, so it misses
\* none of the zone's records of a supported type.
C13_ReadFailsAsAWhole ==
    \A p \in Procs :
        LET f == frame[p]
        IN  IsRead(f) =>
              /\ \A n \in FailedAt(f, Lookups) :
                    /\ Returned(f)
                    /\ n = Len(f.trace)
                    /\ f.err # NoError
              /\ (Returned(f) /\ f.err # NoError) =>
                    /\ f.state = {}
                    /\ FailedAt(f, Lookups) # {}
              /\ (Returned(f) /\ f.err = NoError) =>
                    /\ FailedAt(f, Lookups) = {}
                    /\ \A r \in Supported(zoneRecords[f.zone]) :
                          \E s \in f.state :
                              /\ s.Name = r.SubDomain
                              /\ s.Type = r.FieldType
                              /\ \E n \in 1..Len(s.Records) : s.Records[n] = StateValue(r)

\* The fetch of a record fails after a record of a supported type has been
\* fetched.
C13_Witness ==
    \E p \in Procs :
        LET f == frame[p]
        IN  /\ IsRead(f)
            /\ Returned(f)
            /\ f.err # NoError
            /\ FailedAt(f, {"getRecord"}) # {}
            /\ \E n \in 1..Len(f.records) : f.records[n].FieldType \in SupportedTypes
            /\ f.state = {}

\* The record sets (name, type) the change requests of a batch target.
Targeted(f) == {<<f.reqs[n].Name, f.reqs[n].Type>> : n \in 1..Len(f.reqs)}

\* The records the zone held, when the invocation began, in record sets no
\* request of the batch targets.
Untargeted(f) == {r \in f.pre : <<r.SubDomain, r.FieldType>> \notin Targeted(f)}

\* C14: executeRequests leaves the record sets alone that no change request
\* of the batch targets: every lookup lists a targeted name and type only,
\* no update or delete call is issued for a record of another set, no create
\* call adds to another set, and the records of the other sets are in the
\* zone unchanged, during the call and after it.
C14_UntargetedSetsUntouched ==
    \A p \in Procs :
        LET f == frame[p]
            targeted == Targeted(f)
            others == Untargeted(f)
            otherIds == {r.Id : r \in others}
        IN  IsExec(f) =>
              /\ \A n \in Positions(f, {"listRecordIds", "createRecord"}) :
                    <<f.trace[n].arg.SubDomain, f.trace[n].arg.FieldType>> \in targeted
              /\ \A n \in Positions(f, {"getRecord", "updateRecord", "deleteRecord"}) :
                    f.trace[n].arg.Id \notin otherIds
              /\ others \subseteq zoneRecords[f.zone]
              /\ \A r \in zoneRecords[f.zone] \ f.pre :
                    <<r.SubDomain, r.FieldType>> \in targeted

\* A batch has deleted or updated a record of www while the zone holds an A
\* record at api that no request of the batch targets.
C14_Witness ==
    \E p \in Procs :
        LET f == frame[p]
        IN  /\ IsExec(f)
            /\ Returned(f)
            /\ SucceededAt(f, {"updateRecord", "deleteRecord"}) # {}
            /\ \E r \in Untargeted(f) :
                  /\ r.FieldType = "A"
                  /\ \E n \in 1..Len(f.reqs) :
                        \E m \in 1..Len(f.reqs[n].Records) : f.reqs[n].Records[m] = r.Target

\* The positions of the calls of one of the kinds issued for request n.
CallsFor(f, n, kinds) == {c \in Positions(f, kinds) : f.trace[c].req = n}

\* The ids the remote store has assigned since the engine started.
IsCreated(r) == \A z \in Zones : r.Id \notin {x.Id : x \in InitialRecords[z]}

\* C15: a create request for a record set with k records issues k
\* createRecord calls and no other call: the m-th of them carries the name of
\* the set as subDomain, its type, its m-th value as target and its TTL.
\* When a batch of create requests has succeeded the zone holds one new
\* record for each of them beside the records it had, and the state a later
\* readZoneState returns has the names of all of them.
C15_CreateIsOneCallPerRecord ==
    \A p \in Procs :
        LET f == frame[p]
            creates == {n \in 1..Len(f.reqs) : f.reqs[n].Action = R_CREATE}
        IN  /\ IsExec(f) =>
                  \A n \in creates :
                      LET req == f.reqs[n]
                          calls == CallsFor(f, n, {"createRecord"})
                      IN  /\ CallsFor(f, n, RemoteCalls) = calls
                          /\ Cardinality(calls) <= Len(req.Records)
                          /\ f.i > n => Cardinality(calls) = Len(req.Records)
                          /\ \A c \in calls :
                                LET m == Cardinality({d \in calls : d <= c})
                                IN  /\ f.trace[c].zone = f.zone
                                    /\ f.trace[c].arg.SubDomain = req.Name
                                    /\ f.trace[c].arg.FieldType = req.Type
                                    /\ f.trace[c].arg.Target = req.Records[m]
                                    /\ f.trace[c].arg.Ttl = req.TTL
            /\ (IsExec(f) /\ Returned(f) /\ f.err = NoError /\ creates = 1..Len(f.reqs)) =>
                  /\ f.pre \subseteq zoneRecords[f.zone]
                  /\ Cardinality(zoneRecords[f.zone] \ f.pre)
                        = Cardinality(Positions(f, {"createRecord"}))
                  /\ \A c \in Positions(f, {"createRecord"}) :
                        \E r \in zoneRecords[f.zone] \ f.pre :
                            /\ r.SubDomain = f.trace[c].arg.SubDomain
                            /\ r.FieldType = f.trace[c].arg.FieldType
                            /\ r.Target = f.trace[c].arg.Target
                            /\ r.Ttl = f.trace[c].arg.Ttl
                            /\ r.Zone = f.zone
            /\ (IsRead(f) /\ Returned(f) /\ f.err = NoError) =>
                  \A r \in Supported(zoneRecords[f.zone]) :
                      \E s \in f.state :
                          /\ s.Name = r.SubDomain
                          /\ s.Type = r.FieldType
                          /\ IsCreated(r) => \E n \in 1..Len(s.Records) : s.Records[n] = r.Target

\* The state of example.com read after a create of the set {A, api}: it
\* has www, which the zone held, and api with the created values.
C15_Witness ==
    \E p \in Procs :
        LET f == frame[p]
        IN  /\ IsRead(f)
            /\ Returned(f)
            /\ f.err = NoError
            /\ f.zone = "example.com"
            /\ \E r \in zoneRecords[f.zone] :
                  /\ IsCreated(r)
                  /\ r.SubDomain = "api"
                  /\ r.Target = "5.6.7.8"
            /\ \E s, t \in f.state :
                  /\ s.Name = "www"
                  /\ t.Name = "api"
                  /\ t.Type = "A"
                  /\ t.Records = <<"1.2.3.4", "5.6.7.8">>
                  /\ t.TTL \in RequestTTLs

\* C16 as claimed, for the batches whose record sets all have records: when
\* a create, update or delete call of the batch has succeeded,
\* executeRequests issues refreshZone exactly once before it returns, also
\* when another record operation of the batch failed.
C16_RefreshAfterAnyWrite ==
    \A p \in Procs :
        LET f == frame[p]
        IN  (/\ IsExec(f)
             /\ Returned(f)
             /\ \A n \in 1..Len(f.reqs) : f.reqs[n].Records # <<>>
             /\ SucceededAt(f, WriteCalls) # {}) =>
                Cardinality(Positions(f, {"refreshZone"})) = 1

\* C17: within one executeRequests call the remote calls are issued in the
\* order of the change requests: every lookup and write call of a request
\* comes before every lookup and write call of the requests after it, and
\* the writes of one request come in the order of its records.
C17_WritesInRequestOrder ==
    \A p \in Procs :
        LET f == frame[p]
            calls == Positions(f, Lookups \cup WriteCalls)
        IN  IsExec(f) =>
              /\ \A a, b \in calls : a < b => f.trace[a].req <= f.trace[b].req
              /\ \A a \in calls : f.trace[a].req \in 1..Len(f.reqs)
              /\ \A n \in 1..Len(f.reqs) :
                    \A c \in CallsFor(f, n, {"createRecord"}) :
                        f.trace[c].arg.Target
                          = f.reqs[n].Records[Cardinality({d \in CallsFor(f, n, {"createRecord"}) : d <= c})]

\* A batch of two requests with two records each, all four written.
C17_Witness ==
    \E p \in Procs :
        LET f == frame[p]
        IN  /\ IsExec(f)
            /\ Returned(f)
            /\ Len(f.reqs) = 2
            /\ \A n \in 1..2 : Cardinality(CallsFor(f, n, WriteCalls)) = 2
            /\ FailedAt(f, RemoteCalls) = {}

\* C18 as claimed: a change request whose record set has no records is
\* skipped and the requests after it are still processed: when
\* executeRequests has returned without error, a call has been issued for
\* every request of the batch that has records.
C18_EmptySetIsSkipped ==
    \A p \in Procs :
        LET f == frame[p]
        IN  (IsExec(f) /\ Returned(f) /\ ~dryRun /\ f.err = NoError) =>
                \A n \in 1..Len(f.reqs) :
                    f.reqs[n].Records # <<>> => n \in DispatchedRequests(f)

\* The requests of a batch that name the target of the record r at its name
\* and type.
Requested(f, r) ==
    {n \in 1..Len(f.reqs) :
        /\ f.reqs[n].Name = r.SubDomain
        /\ f.reqs[n].Type = r.FieldType
        /\ \E m \in 1..Len(f.reqs[n].Records) : f.reqs[n].Records[m] = r.Target}

UpdatedIds(f) == {f.trace[n].arg.Id : n \in SucceededAt(f, {"updateRecord"})}

\* C20: an update changes the TTL of the record it finds and nothing else:
\* a batch of update requests creates and deletes no record, the body of
\* each PUT call carries the TTL of the requested record set only, and each
\* record of the zone keeps its id, sub-domain, type and target; its TTL is
\* that of the requested record set when a PUT call for it was answered, and
\* the TTL it had otherwise.
C20_UpdateChangesOnlyTheTtl ==
    \A p \in Procs :
        LET f == frame[p]
        IN  (IsExec(f) /\ \A n \in 1..Len(f.reqs) : f.reqs[n].Action = R_UPDATE) =>
              /\ Positions(f, {"createRecord", "deleteRecord"}) = {}
              /\ \A n \in Positions(f, {"updateRecord"}) :
                    /\ f.trace[n].zone = f.zone
                    /\ f.trace[n].arg.Id \in {r.Id : r \in f.pre}
                    /\ f.trace[n].arg
                         = RecordInfo(f.trace[n].arg.Id, "", "", "", "", f.reqs[f.trace[n].req].TTL)
              /\ Cardinality(zoneRecords[f.zone]) = Cardinality(f.pre)
              /\ \A r \in f.pre :
                    \E u \in zoneRecords[f.zone] :
                        /\ u.Id = r.Id
                        /\ u.Zone = r.Zone
                        /\ u.SubDomain = r.SubDomain
                        /\ u.FieldType = r.FieldType
                        /\ u.Target = r.Target
                        /\ IF r.Id \in UpdatedIds(f)
                           THEN u.Ttl \in {f.reqs[n].TTL : n \in Requested(f, r)}
                           ELSE u.Ttl = r.Ttl

\* An update of www has been answered: the record has the TTL of the
\* request, which is not the one it had.
C20_Witness ==
    \E p \in Procs :
        LET f == frame[p]
        IN  /\ SingleRequest(p, R_UPDATE)
            /\ f.err = NoError
            /\ \E r \in f.pre :
                  /\ r.Id \in UpdatedIds(f)
                  /\ r.Ttl # f.reqs[1].TTL
                  /\ r \notin zoneRecords[f.zone]
            /\ \E r \in f.pre : r.Id \notin UpdatedIds(f) /\ r.FieldType = "A"

\* The records a zone holding `records` holds after executeRequests has run
\* on it from record j of request i, alone and with every remote call
\* answered: the loops of executeRequests over createRecordSet,
\* updateRecordSet and deleteRecordSet, run to their end.
RECURSIVE RunAlone(_, _, _, _, _)
RunAlone(records, zone, reqs, i, j) ==
    IF i > Len(reqs) THEN records
    ELSE IF Len(reqs[i].Records) = 0 THEN records
    ELSE IF j > Len(reqs[i].Records) THEN RunAlone(records, zone, reqs, i + 1, 1)
    ELSE LET req == reqs[i]
             value == req.Records[j]
             listed == SelectSeq(
                           [n \in 1..Cardinality(records) |->
                               CHOOSE r \in records :
                                   Cardinality({x \in records : x.Id < r.Id}) = n - 1],
                           LAMBDA r : r.SubDomain = req.Name /\ r.FieldType = req.Type)
             record == FirstMatch(listed, value)
             fresh == 1 + MaxOf({r.Id : r \in records})
         IN  CASE req.Action = R_CREATE ->
                      RunAlone(records \cup {RecordInfo(fresh, zone, req.Type, req.Name,
                                                        value, req.TTL)},
                               zone, reqs, i, j + 1)
               [] req.Action = R_UPDATE ->
                      IF record = NoArg THEN records
                      ELSE RunAlone((records \ {record}) \cup {[record EXCEPT !.Ttl = req.TTL]},
                                    zone, reqs, i, j + 1)
               [] req.Action = R_DELETE ->
                      IF record = NoArg THEN RunAlone(records, zone, reqs, i, j + 1)
                      ELSE RunAlone(records \ {record}, zone, reqs, i, j + 1)

\* A record without the id the remote store gave it.
Content(r) == [r EXCEPT !.Id = 0]

\* The two sets hold the same records, as often, whatever their ids.
SameRecords(S, T) ==
    /\ Cardinality(S) = Cardinality(T)
    /\ \A r \in S \cup T :
          Cardinality({x \in S : Content(x) = Content(r)})
            = Cardinality({x \in T : Content(x) = Content(r)})

\* Every invocation started so far has had an execution context of its own.
NoContextReused == invocations <= Cardinality(Procs)

\* No other invocation changes the records of the zone of p.
OtherZones(p) ==
    \A q \in Procs \ {p} : IsExec(frame[q]) => frame[q].zone # frame[p].zone

\* C21: zones are isolated under concurrency.  Every lookup, write and
\* refresh call of an executeRequests invocation is issued against the zone
\* of the invocation; and in every interleaving with invocations for other
\* zones, when the invocation has returned with its calls answered, the
\* records of its zone are those its batch produces when it runs alone on
\* the records the zone held when it began (ids apart, which the remote
\* store hands out across zones).
C21_ZonesAreIsolated ==
    \A p \in Procs :
        LET f == frame[p]
        IN  IsExec(f) =>
              /\ \A n \in Positions(f, RemoteCalls) : f.trace[n].zone = f.zone
              /\ (NoContextReused /\ OtherZones(p)) =>
                    /\ \A r \in zoneRecords[f.zone] : r.Zone = f.zone
                    /\ Positions(f, WriteCalls) = {} => zoneRecords[f.zone] = f.pre
                    /\ (Returned(f) /\ FailedAt(f, RemoteCalls) = {}) =>
                          SameRecords(zoneRecords[f.zone],
                                      IF dryRun THEN f.pre
                                      ELSE RunAlone(f.pre, f.zone, f.reqs, 1, 1))

\* Two batches for different zones have run interleaved and returned: the
\* remote store has created a record of the one zone between two records
\* of the other.
C21_Witness ==
    \E p, q \in Procs :
        /\ p # q
        /\ IsExec(frame[p]) /\ Returned(frame[p])
        /\ IsExec(frame[q]) /\ Returned(frame[q])
        /\ frame[p].zone # frame[q].zone
        /\ FailedAt(frame[p], RemoteCalls) = {}
        /\ FailedAt(frame[q], RemoteCalls) = {}
        /\ \E a, c \in zoneRecords[frame[p].zone], b \in zoneRecords[frame[q].zone] :
              /\ IsCreated(a)
              /\ a.Id < b.Id
              /\ b.Id < c.Id

====
